---- MODULE Spec2Model ----
(***************************************************************************)
(* Model of pirey/tierlist: the Home page's tier-list state (tierlist,     *)
(* candidatelist, draggedCandidateItem, draggedTierItem), the disposable   *)
(* drag image kept in document.body, and the Droppable container's         *)
(* dragEnterCounter.                                                       *)
(*                                                                         *)
(* A JavaScript Set<Item> is modelled as a set; the order in which a Set   *)
(* iterates (the order of the tiles on screen) is not modelled.  An Item   *)
(* object is modelled by its label: the four seeded objects carry four     *)
(* different labels and no Item object is ever created after the seed, so  *)
(* reference identity (Set.delete, Set's constructor) and label equality   *)
(* (the filters) agree on them.                                            *)
(***************************************************************************)
EXTENDS Integers, Sequences, FiniteSets, TLC

VARIABLES
  tierlist,              \* Home: React state, Tier[]
  candidatelist,         \* Home: React state, Set<Item>
  draggedCandidateItem,  \* Home: React state, Item | null
  draggedTierItem,       \* Home: React state, Item | null
  dragImages,            \* number of .disposable-drag-image elements in document.body
  dragSource,            \* the platform's drag session: the DraggableItem being dragged
  lastEvent,             \* history: "drop" after a drop handler, "dragend" after onDragEnd, else "other"
  dragEnterCounter,      \* Droppable: React state
  renderedCounter,       \* Droppable: dragEnterCounter as captured by the handlers of the last render
  leaveCalls,            \* Droppable: number of calls of the onDragLeave prop
  dropCalls,             \* Droppable: number of calls of the onDrop prop
  events                 \* Droppable: the enter/leave/drop events handled so far (history)

homeVars == <<tierlist, candidatelist, draggedCandidateItem, draggedTierItem,
              dragImages, dragSource, lastEvent>>
dropVars == <<dragEnterCounter, renderedCounter, leaveCalls, dropCalls, events>>
vars == <<tierlist, candidatelist, draggedCandidateItem, draggedTierItem,
          dragImages, dragSource, lastEvent,
          dragEnterCounter, renderedCounter, leaveCalls, dropCalls, events>>

(***************************************************************************)
(* Bounds                                                                  *)
(***************************************************************************)
\* drag starts are not taken once this many drag images are in the document
MaxDragImages == 2

\* enter, leave and drop events handled by one Droppable
MaxEvents == 4

(***************************************************************************)
(* Items, tiers, null                                                      *)
(***************************************************************************)
Null == "null"

Items == {"Vivo", "Item 1", "Item 2", "Item 3"}

TierLabels == <<"S", "A", "B", "C", "D", "E", "F">>

Pool == "pool"

Range(s) == {s[i] : i \in 1..Len(s)}

\* new Set([...Array.from(s), item])
SetAppend(s, item) == s \cup {item}

\* Set.prototype.delete
SetDelete(s, item) == s \ {item}

\* new Set([...Array.from(s), ...more])
SetConcat(s, more) == s \cup more

(***************************************************************************)
(* Home: helpers                                                           *)
(***************************************************************************)
removeItemFromCandidatelist(item) == SetDelete(candidatelist, item)

\* removeItemFromTier with the filter's test inverted (i.label === item.label)
removeItemFromTierInverted(tierOrigin, item) ==
  [tierOrigin EXCEPT !.items = {i \in @ : i = item}]

removeItemFromTier(tierOrigin, item) ==
  [tierOrigin EXCEPT !.items = {i \in @ : i # item}]

\* addItemToTier that copies the tier's items and forgets the item
addItemToTierForgetsItem(tier, item) ==
  [tier EXCEPT !.items = SetConcat(@, {})]

addItemToTier(tier, item) ==
  [tier EXCEPT !.items = SetAppend(@, item)]

\* addItemToCandidate that copies the pool and forgets the item
addItemToCandidateForgetsItem(item) == candidatelist

addItemToCandidate(item) == SetAppend(candidatelist, item)

\* tierlist.find((t) => Array.from(t.items).find((i) => i.label === item.label)):
\* the index of the first tier holding the item, 0 for undefined
findOriginTier(item) ==
  LET holders == {i \in 1..Len(tierlist) : item \in tierlist[i].items}
  IN  IF holders = {} THEN 0
      ELSE CHOOSE i \in holders : \A j \in holders : i <= j

\* the value moveCandidateItemToTier passes to setTierlist
tierlistWithCandidate(tier, item) ==
  [i \in 1..Len(tierlist) |->
     IF tierlist[i].label = tier THEN addItemToTier(tierlist[i], item)
     ELSE tierlist[i]]

\* tierlist.filter(t => t.label !== originTier.label): the origin tier goes
\* with its item
tierlistWithoutItemOrTier(origin, item) ==
  SelectSeq(tierlist, LAMBDA t : t.label # tierlist[origin].label)

\* tierlist.map(t => t.label === originTier.label ? removeItemFromTier(originTier, item) : t)
tierlistWithoutItem(origin, item) ==
  [i \in 1..Len(tierlist) |->
     IF tierlist[i].label = tierlist[origin].label
     THEN removeItemFromTier(tierlist[origin], item)
     ELSE tierlist[i]]

\* newTierlist of moveTierItemToAnotherTier
tierlistWithMovedItem(origin, targetTier, item) ==
  LET removed == tierlistWithoutItem(origin, item)
  IN  [i \in 1..Len(removed) |->
         IF removed[i].label = targetTier THEN addItemToTier(removed[i], item)
         ELSE removed[i]]

\* document.body.querySelector(".disposable-drag-image")?.remove()
disposeDragImage(n) == IF n > 0 THEN n - 1 ELSE n

\* document.body.append(dragImage)
createDisposableDragImage(n) == n + 1

(***************************************************************************)
(* The platform's drag session and React's keyed reconciliation            *)
(***************************************************************************)
NoDrag == [from |-> "none", item |-> Null, mounted |-> FALSE]

\* a drag whose DraggableItem was unmounted: its dragend reaches no handler,
\* whatever the element was
Detached == [from |-> "detached", item |-> Null, mounted |-> FALSE]

\* the items rendered as DraggableItem inside a container
ItemsIn(tl, cl, container) ==
  IF container = Pool THEN cl
  ELSE UNION {tl[i].items : i \in {j \in 1..Len(tl) : tl[j].label = container}}

\* the dragged DraggableItem stays mounted as long as a render keeps its key
\* (item.label) in the list of the container it was dragged from
Reconcile(src, tl, cl) ==
  IF src.mounted /\ src.item \notin ItemsIn(tl, cl, src.from) THEN Detached ELSE src

(***************************************************************************)
(* Home: initial state                                                     *)
(***************************************************************************)
HomeInit ==
  /\ tierlist = [i \in 1..Len(TierLabels) |->
                   [label |-> TierLabels[i],
                    items |-> IF TierLabels[i] = "S" THEN {"Vivo"} ELSE {}]]
  /\ candidatelist = {"Item 1", "Item 2", "Item 3"}
  /\ draggedCandidateItem = Null
  /\ draggedTierItem = Null
  /\ dragImages = 0
  /\ dragSource = NoDrag
  /\ lastEvent = "other"

DropIdle ==
  /\ dragEnterCounter = 0
  /\ renderedCounter = 0
  /\ leaveCalls = 0
  /\ dropCalls = 0
  /\ events = <<>>

(***************************************************************************)
(* Home: handlers                                                          *)
(***************************************************************************)
\* a drag start that takes the item out of the candidate list at once
DragStartCandidateTakesItem(item) ==
  /\ dragSource = NoDrag
  /\ dragImages < MaxDragImages
  /\ item \in candidatelist
  /\ dragImages' = createDisposableDragImage(dragImages)
  /\ draggedCandidateItem' = item
  /\ candidatelist' = SetDelete(candidatelist, item)
  /\ dragSource' = Detached
  /\ lastEvent' = "other"
  /\ UNCHANGED <<tierlist, draggedTierItem>>
  /\ UNCHANGED dropVars

\* DraggableItem.onDragStart of an item rendered in the candidate list
DragStartCandidate(item) ==
  /\ dragSource = NoDrag
  /\ dragImages < MaxDragImages
  /\ item \in candidatelist
  /\ dragImages' = createDisposableDragImage(dragImages)
  /\ draggedCandidateItem' = item
  /\ dragSource' = [from |-> Pool, item |-> item, mounted |-> TRUE]
  /\ lastEvent' = "other"
  /\ UNCHANGED <<tierlist, candidatelist, draggedTierItem>>
  /\ UNCHANGED dropVars

\* DraggableItem.onDragStart of an item rendered in a tier
DragStartTier(item) ==
  /\ dragSource = NoDrag
  /\ dragImages < MaxDragImages
  /\ findOriginTier(item) # 0
  /\ dragImages' = createDisposableDragImage(dragImages)
  /\ draggedTierItem' = item
  /\ dragSource' = [from |-> tierlist[findOriginTier(item)].label,
                    item |-> item, mounted |-> TRUE]
  /\ lastEvent' = "other"
  /\ UNCHANGED <<tierlist, candidatelist, draggedCandidateItem>>
  /\ UNCHANGED dropVars

\* the platform's dragend, delivered to DraggableItem.onDragEnd when the
\* dragged element is still mounted, and to nobody otherwise
DragEnd ==
  /\ dragSource # NoDrag
  /\ dragSource' = NoDrag
  /\ IF dragSource.mounted
     THEN /\ dragImages' = disposeDragImage(dragImages)
          /\ IF dragSource.from = Pool
             THEN /\ draggedCandidateItem' = Null
                  /\ lastEvent' = "dragend"
                  /\ UNCHANGED draggedTierItem
             ELSE /\ draggedTierItem' = Null
                  /\ lastEvent' = "dragend"
                  /\ UNCHANGED draggedCandidateItem
     ELSE /\ lastEvent' = "other"
          /\ UNCHANGED <<dragImages, draggedCandidateItem, draggedTierItem>>
  /\ UNCHANGED <<tierlist, candidatelist>>
  /\ UNCHANGED dropVars

\* handleDropOnTierList(tier); both setTierlist calls are computed from the
\* tierlist of the current render, and the last one wins
handleDropOnTierList(tier) ==
  LET fromPool == draggedCandidateItem # Null
      origin   == IF draggedTierItem # Null THEN findOriginTier(draggedTierItem) ELSE 0
      fromTier == origin # 0
      afterCandidate == IF fromPool THEN disposeDragImage(dragImages) ELSE dragImages
  IN  /\ tierlist' = IF fromTier THEN tierlistWithMovedItem(origin, tier, draggedTierItem)
                     ELSE IF fromPool THEN tierlistWithCandidate(tier, draggedCandidateItem)
                     ELSE tierlist
      /\ candidatelist' = IF fromPool THEN removeItemFromCandidatelist(draggedCandidateItem)
                          ELSE candidatelist
      /\ draggedCandidateItem' = IF fromPool THEN Null ELSE draggedCandidateItem
      /\ draggedTierItem' = IF fromTier THEN Null ELSE draggedTierItem
      /\ dragImages' = IF fromTier THEN disposeDragImage(afterCandidate) ELSE afterCandidate
      /\ dragSource' = Reconcile(dragSource, tierlist', candidatelist')
      /\ lastEvent' = "drop"
      /\ UNCHANGED dropVars

\* handleDropOnCandidateList()
handleDropOnCandidateList ==
  LET origin   == IF draggedTierItem # Null THEN findOriginTier(draggedTierItem) ELSE 0
      fromTier == origin # 0
  IN  /\ tierlist' = IF fromTier THEN tierlistWithoutItem(origin, draggedTierItem)
                     ELSE tierlist
      /\ candidatelist' = IF fromTier THEN addItemToCandidate(draggedTierItem)
                          ELSE candidatelist
      /\ draggedTierItem' = IF fromTier THEN Null ELSE draggedTierItem
      /\ dragImages' = IF fromTier THEN disposeDragImage(dragImages) ELSE dragImages
      /\ dragSource' = Reconcile(dragSource, tierlist', candidatelist')
      /\ lastEvent' = "drop"
      /\ UNCHANGED draggedCandidateItem
      /\ UNCHANGED dropVars

\* the reducer without its accumulator: (result, tier) => [...Array.from(tier.items)]
itemsInTierlistLastOnly(tl) ==
  IF tl = <<>> THEN {} ELSE tl[Len(tl)].items

\* tierlist.reduce((result, tier) => [...result, ...Array.from(tier.items)], [])
RECURSIVE itemsInTierlist(_)
itemsInTierlist(tl) ==
  IF tl = <<>> THEN {} ELSE Head(tl).items \cup itemsInTierlist(Tail(tl))

\* resetList()
resetList ==
  /\ tierlist' = [i \in 1..Len(tierlist) |-> [tierlist[i] EXCEPT !.items = {}]]
  /\ candidatelist' = SetConcat(candidatelist, itemsInTierlist(tierlist))
  /\ dragSource' = Reconcile(dragSource, tierlist', candidatelist')
  /\ lastEvent' = "other"
  /\ UNCHANGED <<draggedCandidateItem, draggedTierItem, dragImages>>
  /\ UNCHANGED dropVars

Next ==
  \/ \E item \in Items : DragStartCandidate(item)
  \/ \E item \in Items : DragStartTier(item)
  \/ DragEnd
  \/ \E t \in Range(TierLabels) : handleDropOnTierList(t)
  \/ handleDropOnCandidateList
  \/ resetList

(***************************************************************************)
(* Droppable.  dragenter and dragleave are continuous events: React        *)
(* re-renders after them in a later task, so a handler may run with the    *)
(* dragEnterCounter of a render that is older than the last setState.      *)
(* drop is a discrete event and is rendered before the next event.         *)
(***************************************************************************)
\* Droppable's onDragEnter
DroppableOnDragEnter ==
  /\ Len(events) < MaxEvents
  /\ dragEnterCounter' = renderedCounter + 1
  /\ events' = Append(events, "enter")
  /\ UNCHANGED <<renderedCounter, leaveCalls, dropCalls>>
  /\ UNCHANGED homeVars

\* Droppable's onDragLeave
DroppableOnDragLeave ==
  LET nextDragEnterCounter == renderedCounter - 1
  IN  /\ Len(events) < MaxEvents
      /\ dragEnterCounter' = nextDragEnterCounter
      /\ leaveCalls' = IF nextDragEnterCounter <= 0 THEN leaveCalls + 1 ELSE leaveCalls
      /\ events' = Append(events, "leave")
      /\ UNCHANGED <<renderedCounter, dropCalls>>
      /\ UNCHANGED homeVars

\* an onDrop that calls the onDrop prop and leaves the counter alone
DroppableOnDropKeepsCounter ==
  /\ Len(events) < MaxEvents
  /\ dropCalls' = dropCalls + 1
  /\ events' = Append(events, "drop")
  /\ UNCHANGED <<dragEnterCounter, renderedCounter, leaveCalls>>
  /\ UNCHANGED homeVars

\* Droppable's onDrop
DroppableOnDrop ==
  /\ Len(events) < MaxEvents
  /\ dragEnterCounter' = 0
  /\ renderedCounter' = 0
  /\ dropCalls' = dropCalls + 1
  /\ events' = Append(events, "drop")
  /\ UNCHANGED leaveCalls
  /\ UNCHANGED homeVars

\* React renders Droppable with the stored state
DroppableRender ==
  /\ renderedCounter # dragEnterCounter
  /\ renderedCounter' = dragEnterCounter
  /\ UNCHANGED <<dragEnterCounter, leaveCalls, dropCalls, events>>
  /\ UNCHANGED homeVars

NextDroppable ==
  \/ DroppableOnDragEnter
  \/ DroppableOnDragLeave
  \/ DroppableOnDrop
  \/ DroppableRender

Init == HomeInit /\ DropIdle

Spec == Init /\ [][Next]_vars

SpecDroppable == Init /\ [][NextDroppable]_vars

\* the platform ends every drag session it has begun with a dragend event
SpecLive == Init /\ [][Next]_vars /\ WF_vars(DragEnd)

(***************************************************************************)
(* Vocabulary of the properties                                            *)
(***************************************************************************)
TierIndexes == 1..Len(TierLabels)

\* the items of the tier with the given label, as a set
ItemsOfTier(tl, label) == ItemsIn(tl, {}, label)

\* the number of places (pool, tiers) that hold the item
Locations(tl, cl, item) ==
  (IF item \in cl THEN 1 ELSE 0)
  + Cardinality({i \in 1..Len(tl) : item \in tl[i].items})

RECURSIVE CountTierItems(_)
CountTierItems(tl) ==
  IF tl = <<>> THEN 0 ELSE Cardinality(Head(tl).items) + CountTierItems(Tail(tl))

\* the number of items over pool and tiers
TotalItems(tl, cl) == Cardinality(cl) + CountTierItems(tl)

AllTierItems(tl) == UNION {tl[i].items : i \in 1..Len(tl)}

(***************************************************************************)
(* C1 *)
(***************************************************************************)
\* C1: in every reachable state every item is in exactly one location:
\* the candidate pool or the items of exactly one tier, never two, never none.
C1_ExactlyOneLocation ==
  \A item \in Items : Locations(tierlist, candidatelist, item) = 1

\* a drag of item I begun from the candidate list is under way
DraggingFromPool(I) ==
  /\ dragSource = [from |-> Pool, item |-> I, mounted |-> TRUE]
  /\ draggedCandidateItem = I
  /\ I \in candidatelist

\* a drag of item I begun from the tier of index A is under way
DraggingFromTier(I, A) ==
  /\ dragSource = [from |-> TierLabels[A], item |-> I, mounted |-> TRUE]
  /\ draggedTierItem = I
  /\ I \in tierlist[A].items

\* C2: a drop on tier T during the drag of an item I begun from the pool
\* leaves I out of the pool, in T.items, in no other tier, every other tier
\* as before and the total number of items unchanged.
C2_PoolToTier ==
  [][(lastEvent' = "drop" /\ dragSource.from = Pool) =>
     \A T \in Range(TierLabels) :
       LET I == dragSource.item IN
       (DraggingFromPool(I) /\ handleDropOnTierList(T))
       => ( /\ I \notin candidatelist'
            /\ I \in ItemsOfTier(tierlist', T)
            /\ \A i \in TierIndexes :
                 tierlist'[i].label # T =>
                   /\ I \notin tierlist'[i].items
                   /\ tierlist'[i].items = tierlist[i].items
            /\ TotalItems(tierlist', candidatelist')
                 = TotalItems(tierlist, candidatelist) )]_vars

\* C3: a drop on tier B during the drag of an item I begun from tier A # B
\* leaves I out of A.items, in B.items, the pool and the tiers other than A
\* and B as before, and the total number of items unchanged.
C3_TierToTier ==
  [][(lastEvent' = "drop" /\ dragSource.mounted /\ dragSource.from # Pool) =>
     \A A \in TierIndexes : \A B \in TierIndexes \ {A} :
       LET I == dragSource.item IN
       (DraggingFromTier(I, A) /\ handleDropOnTierList(TierLabels[B]))
       => ( /\ I \notin tierlist'[A].items
            /\ I \in tierlist'[B].items
            /\ candidatelist' = candidatelist
            /\ \A i \in TierIndexes \ {A, B} : tierlist'[i] = tierlist[i]
            /\ TotalItems(tierlist', candidatelist')
                 = TotalItems(tierlist, candidatelist) )]_vars

\* C3 happens: Vivo was dragged from tier S and the drop has put it in tier A
C3_Witness ==
  /\ lastEvent = "drop"
  /\ dragSource = Detached
  /\ draggedTierItem = Null
  /\ ItemsOfTier(tierlist, "A") = {"Vivo"}
  /\ ItemsOfTier(tierlist, "S") = {}

\* C4: a drop on the pool during the drag of an item I begun from tier A
\* leaves I out of A.items and in the pool, every other tier and every other
\* pool member as before, and the tier-drag-selection empty.
C4_TierToPool ==
  [][(lastEvent' = "drop" /\ dragSource.mounted /\ dragSource.from # Pool) =>
     \A A \in TierIndexes :
       LET I == dragSource.item IN
       (DraggingFromTier(I, A) /\ handleDropOnCandidateList)
       => ( /\ I \notin tierlist'[A].items
            /\ I \in candidatelist'
            /\ \A i \in TierIndexes \ {A} : tierlist'[i] = tierlist[i]
            /\ candidatelist' \ {I} = candidatelist \ {I}
            /\ draggedTierItem' = Null )]_vars

\* C4 happens: Vivo was dragged from tier S and the drop has put it in the pool
C4_Witness ==
  /\ lastEvent = "drop"
  /\ dragSource = Detached
  /\ draggedTierItem = Null
  /\ candidatelist = {"Item 1", "Item 2", "Item 3", "Vivo"}
  /\ ItemsOfTier(tierlist, "S") = {}

\* C5: reset empties every tier and makes the pool the previous pool united
\* with every item that was in a tier; the number of items is unchanged, and
\* with all tiers empty the pool is unchanged.
C5_Reset ==
  [][(lastEvent' = "other" /\ resetList) =>
       ( /\ \A i \in TierIndexes : tierlist'[i].items = {}
         /\ candidatelist' = candidatelist \cup AllTierItems(tierlist)
         /\ TotalItems(tierlist', candidatelist')
              = TotalItems(tierlist, candidatelist)
         /\ (AllTierItems(tierlist) = {} => candidatelist' = candidatelist) )]_vars

\* C5 happens: a reset during the drag of Item 1 from tier A has collected
\* Vivo from tier S and Item 1 from tier A (only a reset moves a tier item to
\* the pool and leaves it selected)
C5_Witness ==
  /\ lastEvent = "other"
  /\ dragSource = Detached
  /\ draggedTierItem = "Item 1"
  /\ candidatelist = {"Item 1", "Item 2", "Item 3", "Vivo"}
  /\ AllTierItems(tierlist) = {}

\* C6: begin-drag and end-drag events leave the pool's contents and every
\* tier's contents unchanged.
C6_DragWithoutDrop ==
  [][( /\ dragSource = NoDrag \/ dragSource' = NoDrag
       /\ \/ \E item \in Items : DragStartCandidate(item)
          \/ \E item \in Items : DragStartTier(item)
          \/ DragEnd )
     => (tierlist' = tierlist /\ candidatelist' = candidatelist)]_vars

\* C6 happens: a drag of an item from the pool has begun and ended, and pool
\* and tiers are as seeded
C6_Witness ==
  /\ lastEvent = "dragend"
  /\ dragSource = NoDrag
  /\ draggedCandidateItem = Null
  /\ candidatelist = {"Item 1", "Item 2", "Item 3"}
  /\ ItemsOfTier(tierlist, "S") = {"Vivo"}

\* C9: at most one temporary drag-image element exists in the document.
C9_AtMostOneDragImage == dragImages <= 1

\* C10: right after every drop, on a tier or on the pool, and right after
\* every drag-end, no temporary drag-image element exists in the document.
C10_NoDragImageAfterDropOrDragEnd ==
  lastEvent \in {"drop", "dragend"} => dragImages = 0

\* C11: under the assumption that every drag that has begun gets its
\* drag-end event from the platform, a set drag-selection (of the pool or of
\* a tier) is always eventually empty again.
C11_SelectionEventuallyCleared ==
  /\ (draggedCandidateItem # Null) ~> (draggedCandidateItem = Null)
  /\ (draggedTierItem # Null) ~> (draggedTierItem = Null)

\* C12: a drop on tier T during the drag of an item I begun from that same
\* tier T leaves T with the same items (I among them), and the pool and every
\* other tier as before; the drop is handled (the tier-drag-selection is
\* cleared).
C12_SameTierDrop ==
  [][(lastEvent' = "drop" /\ dragSource.mounted /\ dragSource.from # Pool) =>
     \A T \in TierIndexes :
       LET I == dragSource.item IN
       (DraggingFromTier(I, T) /\ handleDropOnTierList(TierLabels[T]))
       => ( /\ tierlist'[T].items = tierlist[T].items
            /\ I \in tierlist'[T].items
            /\ Locations(tierlist', candidatelist', I) = 1
            /\ candidatelist' = candidatelist
            /\ \A i \in TierIndexes \ {T} : tierlist'[i] = tierlist[i]
            /\ draggedTierItem' = Null )]_vars

\* C12 happens: Vivo was dragged from tier S and dropped on tier S, where it
\* still is; its DraggableItem is still mounted and the drag not yet ended
C12_Witness ==
  /\ lastEvent = "drop"
  /\ dragSource = [from |-> "S", item |-> "Vivo", mounted |-> TRUE]
  /\ draggedTierItem = Null
  /\ ItemsOfTier(tierlist, "S") = {"Vivo"}

\* a drop on some tier or on the pool
AnyDrop ==
  \/ handleDropOnCandidateList
  \/ \E t \in Range(TierLabels) : handleDropOnTierList(t)

DataUnchanged == tierlist' = tierlist /\ candidatelist' = candidatelist

\* a drop while both drag-selections are empty
DropWithEmptySelections ==
  (draggedCandidateItem = Null /\ draggedTierItem = Null /\ AnyDrop)
    => DataUnchanged

\* a tier-origin drop (only the tier-drag-selection is set) whose selected
\* item is found in no tier
DropWithOriginNotFound ==
  ( /\ draggedTierItem # Null
    /\ findOriginTier(draggedTierItem) = 0
    /\ draggedCandidateItem = Null
    /\ AnyDrop )
    => DataUnchanged

\* a pool-origin drop (the pool-drag-selection is set) on the pool
DropFromPoolOnPool ==
  (draggedCandidateItem # Null /\ handleDropOnCandidateList) => DataUnchanged

\* C13: a drop whose precondition is not met (both selections empty; the
\* tier-selected item found in no tier; a pool-origin drop on the pool)
\* leaves the pool's contents and every tier's contents unchanged.
C13_UnmetPreconditionDrop ==
  [][lastEvent' = "drop" =>
       ( /\ DropWithEmptySelections
         /\ DropWithOriginNotFound
         /\ DropFromPoolOnPool )]_vars

\* C14: the pool-drag-selection and the tier-drag-selection are never both
\* set: at most one item is selected as being dragged.
C14_AtMostOneSelection ==
  ~(draggedCandidateItem # Null /\ draggedTierItem # Null)

\* C15: the tier list is always the same sequence of seven tiers labelled
\* S, A, B, C, D, E, F in that order; only the tiers' items change.
C15_TiersStable ==
  /\ Len(tierlist) = 7
  /\ Len(tierlist) = Len(TierLabels)
  /\ \A i \in 1..Len(tierlist) : tierlist[i].label = TierLabels[i]
  /\ TierLabels = <<"S", "A", "B", "C", "D", "E", "F">>

\* C15 happens: a reset has taken Vivo to the pool while it was being dragged
\* from its tier, and a later drop has put Item 1 in tier F
C15_Witness ==
  /\ lastEvent = "drop"
  /\ draggedTierItem = "Vivo"
  /\ "Vivo" \in candidatelist
  /\ ItemsOfTier(tierlist, "F") = {"Item 1"}
  /\ Len(tierlist) = 7

\* C18: a set drag-selection agrees with the item's location: the item of
\* the pool-drag-selection is in the pool, and the item of the
\* tier-drag-selection is in the items of some tier.
C18_SelectionAgreesWithLocation ==
  /\ draggedCandidateItem # Null => draggedCandidateItem \in candidatelist
  /\ draggedTierItem # Null => draggedTierItem \in AllTierItems(tierlist)

(***************************************************************************)
(* Droppable properties                                                    *)
(***************************************************************************)
\* C7: from counter 0, enter, enter, leave, leave calls the leave callback
\* once, and only at the second leave; enter, leave, enter, leave calls it
\* twice.
C7_LeaveSequences ==
  /\ events = <<"enter", "enter", "leave">> => leaveCalls = 0
  /\ events = <<"enter", "enter", "leave", "leave">> => leaveCalls = 1
  /\ events = <<"enter", "leave", "enter", "leave">> => leaveCalls = 2

\* C8: a drop sets the enter-counter to 0 whatever it was before and calls
\* the drop callback exactly once.
C8_DropResets ==
  [][events' = Append(events, "drop")
       => (dragEnterCounter' = 0 /\ dropCalls' = dropCalls + 1)]_vars

\* C8 happens: a drop has arrived with the counter at -1
C8_Witness ==
  /\ events = <<"leave", "drop">>
  /\ dragEnterCounter = 0
  /\ dropCalls = 1

\* C16: the enter-counter is 0 at the start and never negative.
C16_CounterNonNegative ==
  /\ (events = <<>> => dragEnterCounter = 0)
  /\ dragEnterCounter >= 0

\* the events handled since the last drop (all of them when there was none)
RECURSIVE EventsSinceDrop(_)
EventsSinceDrop(es) ==
  IF es = <<>> THEN <<>>
  ELSE IF es[Len(es)] = "drop" THEN <<>>
  ELSE Append(EventsSinceDrop(SubSeq(es, 1, Len(es) - 1)), es[Len(es)])

CountOf(es, e) == Cardinality({i \in 1..Len(es) : es[i] = e})

\* C17: after n enter and m leave events since the counter was last 0 by
\* construction or by a drop, the stored counter is n - m, whether or not the
\* component re-rendered between the events.
C17_CounterIsEntersMinusLeaves ==
  dragEnterCounter = CountOf(EventsSinceDrop(events), "enter")
                     - CountOf(EventsSinceDrop(events), "leave")

====
